---- MODULE Spec2Model ----
(***************************************************************************)
(* Trailing stop-loss simulation and percent sweep of src/app.py.          *)
(*                                                                         *)
(* One run of the "Kjør Analyse" branch: a price frame df and a buy point  *)
(* are given, the sweep loop calls simuler_handel once per percent, the    *)
(* KPI section renders the best sale date and SEKSJON 2 rebuilds the       *)
(* stop-loss line for the chart.                                           *)
(*                                                                         *)
(* Numbers.  Prices are positive integers.  A price computed by the code   *)
(* (stop_niva, salgspris, siste_pris) is kept in hundredths, so            *)
(* hoyeste_pris * (1 - sl/100) is the integer hoyeste_pris * (100 - sl).   *)
(* A return is the exact fraction <<numerator, denominator>>.  Arithmetic  *)
(* is exact: the rounding of Python's binary64 floats is not modelled.     *)
(* A date is the position of its row in df.index (sorted, unique).         *)
(***************************************************************************)
EXTENDS Integers, Sequences, FiniteSets, TLC

\* ---------------------------------------------------------------- bounds
MaxBars == 3
Prices == {9, 12}
Percents == {24, 25, 26}
Scales == {2, 3}

\* ---------------------------------------------------------------- values
\* np.nan / pd.isna: a missing number.  Prices are positive, 0 is free.
NaN == 0
\* Python's None for a date; dates are 1..Len(df).
None == 0

IsNa(x) == x = NaN

\* IEEE comparisons: any comparison with NaN is False.
GT(a, b) == ~IsNa(a) /\ ~IsNa(b) /\ a > b

\* Low <= stop_niva, the stop level given in hundredths.
LowLEStop(low, stop100) == ~IsNa(low) /\ low * 100 <= stop100

\* ------------------------------------------------------------- fractions
Frac(n, d) == <<n, d>>
\* A best-so-far test that also takes an equal return: g >= best_gevinst.
FracGE(a, b) == a[1] * b[2] >= b[1] * a[2]

\* g > best_gevinst
FracGT(a, b) == a[1] * b[2] > b[1] * a[2]
FracTimes100(a) == <<a[1] * 100, a[2]>>

\* gevinst / kjops_pris, gevinst = salgspris - kjops_pris (salgspris in
\* hundredths).
GevinstPct(pris100, kjops_pris) == Frac(pris100 - 100 * kjops_pris, 100 * kjops_pris)

\* ------------------------------------------------------------ price data
\* A row of the frame.  High and Low may be missing; Close is a number, and
\* Low <= Close <= High among the numbers present.
Rows ==
  { r \in [High : Prices \cup {NaN}, Low : Prices \cup {NaN}, Close : Prices] :
      /\ (~IsNa(r.Low)) => r.Low <= r.Close
      /\ (~IsNa(r.High)) => r.Close <= r.High }

Frames == UNION { [1..n -> Rows] : n \in 1..MaxBars }

\* df["Low"].idxmin(): the first row holding the least Low, NaN skipped.
LowIdxMin(d) ==
  CHOOSE i \in 1..Len(d) :
    /\ ~IsNa(d[i].Low)
    /\ \A j \in 1..Len(d) : ~IsNa(d[j].Low) =>
         (d[i].Low < d[j].Low \/ (d[i].Low = d[j].Low /\ i <= j))

\* velg_kjopspunkt: the (date, price) pairs the three modes can return.
\*   lowest Low: the row of the least Low, at that Low;
\*   first day, and the SMA50 fallback: row 1 at its Close;
\*   first Close over SMA50: some row at its Close (the 49 rows the average
\*   needs before it lie before the modelled frame and touch nothing else).
velg_kjopspunkt(d) ==
  { <<i, d[i].Close>> : i \in 1..Len(d) }
    \cup (IF \E i \in 1..Len(d) : ~IsNa(d[i].Low)
          THEN { <<LowIdxMin(d), d[LowIdxMin(d)].Low>> }
          ELSE {})

\* ------------------------------------------------------ simuler_handel
\* A skip test that looks at High only.
SkipRowHigh(row) == IsNa(row.High)

\* pd.isna(row.get("High")) or pd.isna(row.get("Low"))
SkipRow(row) == IsNa(row.High) \/ IsNa(row.Low)

\* A mark that follows the latest High instead of the highest.
NyHoyesteSiste(row, hoyeste) == IF IsNa(row.High) THEN hoyeste ELSE row.High

\* if row["High"] > hoyeste_pris: hoyeste_pris = row["High"]
NyHoyeste(row, hoyeste) == IF GT(row.High, hoyeste) THEN row.High ELSE hoyeste

\* A stop a fixed distance below the mark: hoyeste_pris - stop_loss_pct.
StopNivaAbs(hoyeste, pct) == hoyeste * 100 - pct

\* stop_niva = hoyeste_pris * (1 - stop_loss_pct), in hundredths
StopNiva(hoyeste, pct) == hoyeste * (100 - pct)

\* The stop level computed before the mark is raised.
StopVedRadFor(row, hoyeste, pct) == StopNiva(hoyeste, pct)

\* The stop level the loop compares a row with: the mark is raised to the
\* row's High first (lines 153-154), the level computed after (line 156).
StopVedRad(row, hoyeste, pct) == StopNiva(NyHoyeste(row, hoyeste), pct)

\* A strict comparison: row["Low"] < stop_niva.
UtlostStrict(row, hoyeste, pct) ==
  ~IsNa(row.Low) /\ row.Low * 100 < StopVedRad(row, hoyeste, pct)

\* if row["Low"] <= stop_niva
Utlost(row, hoyeste, pct) == LowLEStop(row.Low, StopVedRad(row, hoyeste, pct))

\* What a call returns, with the locals it ends with: hoyeste the mark, rad
\* the last row the loop visited (None: none), utlost whether line 162
\* returned.
Retur(g, dato, pris, hoyeste, rad, utlost) ==
  [g |-> g, dato |-> dato, pris |-> pris, hoyeste |-> hoyeste, rad |-> rad,
   utlost |-> utlost]

\* return 0.0, None, 0.0
TomRetur(kjops_pris) == Retur(Frac(0, 1), None, 0, kjops_pris, None, FALSE)

\* A fill at the row's Low instead of the stop level.
StopReturLow(d, i, hoyeste, kjops_pris, pct) ==
  Retur(GevinstPct(100 * d[i].Low, kjops_pris), i, 100 * d[i].Low,
        NyHoyeste(d[i], hoyeste), i, TRUE)

\* return float(gevinst_pct), dato, salgspris
StopRetur(d, i, hoyeste, kjops_pris, pct) ==
  Retur(GevinstPct(StopVedRad(d[i], hoyeste, pct), kjops_pris), i,
        StopVedRad(d[i], hoyeste, pct), NyHoyeste(d[i], hoyeste), i, TRUE)

\* siste_pris = float(periode_data.iloc[-1]["Close"]); return ...,
\* periode_data.index[-1], siste_pris
SluttRetur(d, hoyeste, kjops_pris) ==
  Retur(GevinstPct(100 * d[Len(d)].Close, kjops_pris), Len(d),
        100 * d[Len(d)].Close, hoyeste, Len(d), FALSE)

\* The for loop of simuler_handel from row i on.
RECURSIVE Iterrows(_, _, _, _, _)
Iterrows(d, i, hoyeste, kjops_pris, pct) ==
  IF i > Len(d) THEN SluttRetur(d, hoyeste, kjops_pris)
  ELSE IF SkipRow(d[i]) THEN Iterrows(d, i + 1, hoyeste, kjops_pris, pct)
  ELSE IF Utlost(d[i], hoyeste, pct) THEN StopRetur(d, i, hoyeste, kjops_pris, pct)
  ELSE Iterrows(d, i + 1, NyHoyeste(d[i], hoyeste), kjops_pris, pct)

\* periode_data = df[df.index > kjops_dato]; empty: the zero outcome.
simuler_handel(d, kjops_dato, kjops_pris, pct) ==
  IF kjops_dato >= Len(d) THEN TomRetur(kjops_pris)
  ELSE Iterrows(d, kjops_dato + 1, kjops_pris, kjops_pris, pct)

\* ------------------------------------------------------- SEKSJON 2
\* The loop over plot_data.index from row i on: the stop-loss line, NaN
\* before the buy date and where High is missing.  sl_line holds hundredths.
RECURSIVE StopLossLinje(_, _, _, _, _)
StopLossLinje(d, i, kjops_dato, hoyeste, pct) ==
  IF i > Len(d) THEN << >>
  ELSE IF i < kjops_dato \/ IsNa(d[i].High)
    THEN <<NaN>> \o StopLossLinje(d, i + 1, kjops_dato, hoyeste, pct)
  ELSE <<StopNiva(NyHoyeste(d[i], hoyeste), pct)>>
         \o StopLossLinje(d, i + 1, kjops_dato, NyHoyeste(d[i], hoyeste), pct)

\* ---------------------------------------------------------------- state
VARIABLES
  df,             \* the price frame
  optimal_dato,   \* buy date
  optimal_pris,   \* buy price
  r_start, r_end, \* stop_loss_range
  pc,             \* "sweep", "walk", "chart", "done", "error"
  sl,             \* the percent the sweep loop is at
  idx,            \* the row iterrows is at
  hoyeste_pris,   \* simuler_handel's high-water mark
  stop_niva,      \* the last stop level simuler_handel computed, None: none
  results,        \* the result table
  best_gevinst, best_sl, best_salgsdato, best_salgspris,
  kall,           \* what each simuler_handel call of the sweep returned
  dato_salg,      \* which caption the KPI section chose
  sl_line         \* the chart's stop-loss line

vars == <<df, optimal_dato, optimal_pris, r_start, r_end, pc, sl, idx,
          hoyeste_pris, stop_niva, results, best_gevinst, best_sl,
          best_salgsdato, best_salgspris, kall, dato_salg, sl_line>>

inputs == <<df, optimal_dato, optimal_pris, r_start, r_end>>
best == <<best_gevinst, best_sl, best_salgsdato, best_salgspris>>
render == <<dato_salg, sl_line>>

\* The state at line 233, the range taken from the caller as it comes.
InitRange(ranges) ==
  /\ df \in Frames
  /\ \E k \in velg_kjopspunkt(df) : optimal_dato = k[1] /\ optimal_pris = k[2]
  /\ \E r \in ranges : r_start = r[1] /\ r_end = r[2]
  /\ pc = "sweep"
  /\ sl = r_start
  /\ idx = None
  /\ hoyeste_pris = optimal_pris
  /\ stop_niva = None
  /\ results = << >>
  /\ best_gevinst = Frac(-100, 1)
  /\ best_sl = 0
  /\ best_salgsdato = None
  /\ best_salgspris = 0
  /\ kall = << >>
  /\ dato_salg = ""
  /\ sl_line = << >>

\* st.slider(..., 1, 90, (3, 50)): a range slider returns (low, high), low <= high.
Init == InitRange({ r \in Percents \X Percents : r[1] <= r[2] })

\* The rest of the sweep loop's body once simuler_handel has returned ret:
\* the table row, the strict > update of the best, the next percent.
LoopBody(ret) ==
  /\ results' = Append(results, [sl |-> sl, gevinst |-> FracTimes100(ret.g)])
  /\ kall' = Append(kall, [sl |-> sl, ret |-> ret])
  /\ IF FracGT(ret.g, best_gevinst)
       THEN /\ best_gevinst' = ret.g
            /\ best_sl' = sl
            /\ best_salgsdato' = ret.dato
            /\ best_salgspris' = ret.pris
       ELSE UNCHANGED best
  /\ sl' = sl + 1
  /\ pc' = "sweep"

\* for sl in range_sl: simuler_handel(...) with no row after the buy date.
SimTom ==
  /\ pc = "sweep" /\ sl <= r_end
  /\ optimal_dato >= Len(df)
  /\ LoopBody(TomRetur(optimal_pris))
  /\ hoyeste_pris' = optimal_pris /\ stop_niva' = None /\ idx' = None
  /\ UNCHANGED <<inputs, render>>

\* for sl in range_sl: simuler_handel(...) enters its loop.
SimStart ==
  /\ pc = "sweep" /\ sl <= r_end
  /\ optimal_dato < Len(df)
  /\ pc' = "walk"
  /\ idx' = optimal_dato + 1
  /\ hoyeste_pris' = optimal_pris
  /\ stop_niva' = None
  /\ UNCHANGED <<inputs, sl, results, best, kall, render>>

\* A row with High or Low missing: continue.
SkipBar ==
  /\ pc = "walk" /\ idx <= Len(df)
  /\ SkipRow(df[idx])
  /\ idx' = idx + 1
  /\ UNCHANGED <<inputs, pc, sl, hoyeste_pris, stop_niva, results, best, kall, render>>

\* A row that does not reach the stop level.
EvalBar ==
  /\ pc = "walk" /\ idx <= Len(df)
  /\ ~SkipRow(df[idx])
  /\ ~Utlost(df[idx], hoyeste_pris, sl)
  /\ hoyeste_pris' = NyHoyeste(df[idx], hoyeste_pris)
  /\ stop_niva' = StopVedRad(df[idx], hoyeste_pris, sl)
  /\ idx' = idx + 1
  /\ UNCHANGED <<inputs, pc, sl, results, best, kall, render>>

\* A row that reaches the stop level: simuler_handel returns at line 162.
ExitBar ==
  /\ pc = "walk" /\ idx <= Len(df)
  /\ ~SkipRow(df[idx])
  /\ Utlost(df[idx], hoyeste_pris, sl)
  /\ hoyeste_pris' = NyHoyeste(df[idx], hoyeste_pris)
  /\ stop_niva' = StopVedRad(df[idx], hoyeste_pris, sl)
  /\ LoopBody(StopRetur(df, idx, hoyeste_pris, optimal_pris, sl))
  /\ UNCHANGED <<inputs, idx, render>>

\* The loop ran out of rows: the close of the last one.
HeldToEnd ==
  /\ pc = "walk" /\ idx > Len(df)
  /\ LoopBody(SluttRetur(df, hoyeste_pris, optimal_pris))
  /\ UNCHANGED <<inputs, idx, hoyeste_pris, stop_niva, render>>

\* SEKSJON 1 with a sale date: the caption of lines 256-259.
KPI ==
  /\ pc = "sweep" /\ sl > r_end
  /\ best_salgsdato # None
  /\ dato_salg' = IF best_salgsdato = Len(df) THEN "Siste dag i datasettet"
                                             ELSE "Stop Loss utlost"
  /\ pc' = "chart"
  /\ UNCHANGED <<inputs, sl, idx, hoyeste_pris, stop_niva, results, best, kall, sl_line>>

\* SEKSJON 1 without one: None == df.index[-1] is False and line 259 calls
\* None.strftime, an AttributeError that ends the run.
KPIError ==
  /\ pc = "sweep" /\ sl > r_end
  /\ best_salgsdato = None
  /\ pc' = "error"
  /\ UNCHANGED <<inputs, sl, idx, hoyeste_pris, stop_niva, results, best, kall, render>>

\* SEKSJON 2: the stop-loss line of the best percent.
Chart ==
  /\ pc = "chart"
  /\ sl_line' = StopLossLinje(df, 1, optimal_dato, optimal_pris, best_sl)
  /\ pc' = "done"
  /\ UNCHANGED <<inputs, sl, idx, hoyeste_pris, stop_niva, results, best, kall, dato_salg>>

Next ==
  \/ SimTom
  \/ SimStart
  \/ SkipBar
  \/ EvalBar
  \/ ExitBar
  \/ HeldToEnd
  \/ KPI
  \/ KPIError
  \/ Chart

Spec == Init /\ [][Next]_vars

\* The sweep block given any pair as its range, low > high included.
InitAnyRange == InitRange(Percents \X Percents)

SpecAnyRange == InitAnyRange /\ [][Next]_vars


\* ======================================================================
\* Reference definitions the properties are stated with.  They describe a
\* trailing stop directly on the frame and use none of the definitions
\* above.
\* ======================================================================
Missing(row) == row.High = NaN \/ row.Low = NaN

\* Rows after the buy date, and those of them with both High and Low.
PostEntry == (optimal_dato + 1)..Len(df)
Evaluated == { i \in PostEntry : ~Missing(df[i]) }

Largest(S) == CHOOSE x \in S : \A y \in S : y <= x
Least(S) == CHOOSE x \in S : \A y \in S : x <= y

\* The high-water mark once row i has been seen: the buy price and the
\* Highs of the evaluated rows up to i.
MarkAt(i) == Largest({optimal_pris} \cup { df[j].High : j \in { e \in Evaluated : e <= i } })

\* Stop level (hundredths) of percent p under mark m.
Level(m, p) == m * (100 - p)

\* The rows whose Low is at or under the stop level of their own mark.
Triggers(p) == { i \in Evaluated : df[i].Low * 100 <= Level(MarkAt(i), p) }

\* (price - buy price) / buy price, price in hundredths.
ReturnOf(pris100) == <<pris100 - 100 * optimal_pris, 100 * optimal_pris>>
SameFrac(a, b) == a[1] * b[2] = b[1] * a[2]
Greater(a, b) == a[1] * b[2] > b[1] * a[2]

Calls == { kall[n] : n \in 1..Len(kall) }

\* The call that has just returned to the sweep loop.  Every call of a run
\* is this one in the state its return leads to, and kall only grows.
Returned == IF pc = "sweep" /\ kall # << >> THEN { kall[Len(kall)] } ELSE {}

\* The state the sweep loop ends in.
SweepOver == pc = "sweep" /\ sl > r_end

\* ---------------------------------------------------------------- C1
\* C1: a walk that has not exited and meets a row with High above the
\* current mark and Low <= High * (1 - f) exits on that very row at price
\* High * (1 - f): the mark is raised before the stop level is computed.
\* This covers the first row after the buy date, where the mark is the buy
\* price.
C1_SameBarExit ==
  [][ ( /\ pc = "walk" /\ idx <= Len(df)
        /\ ~Missing(df[idx])
        /\ df[idx].High > hoyeste_pris
        /\ df[idx].Low * 100 <= Level(df[idx].High, sl) )
      => ( /\ Len(kall') = Len(kall) + 1
           /\ kall'[Len(kall')].sl = sl
           /\ kall'[Len(kall')].ret.utlost
           /\ kall'[Len(kall')].ret.dato = idx
           /\ kall'[Len(kall')].ret.pris = Level(df[idx].High, sl)
           /\ pc' = "sweep" ) ]_vars

\* A call that exited on a row whose High raised the mark and whose Low was
\* above the stop level of the mark before it.
C1_Witness ==
  \E c \in Calls :
    /\ c.ret.utlost
    /\ LET before == IF c.ret.dato = optimal_dato + 1 THEN optimal_pris
                     ELSE MarkAt(c.ret.dato - 1)
       IN /\ df[c.ret.dato].High > before
          /\ df[c.ret.dato].Low * 100 > Level(before, c.sl)

\* ---------------------------------------------------------------- C2
\* C2: every call returns one outcome; a call that exits does so on the
\* earliest row after the buy date whose Low <= mark * (1 - f) at that row:
\* the date returned is that row, the price is the stop level (not the
\* Low), the return is (stop level - buy price) / buy price, and no later
\* row was visited or raised the mark.
C2_EarliestExit ==
  /\ Len(kall) = Len(results)
  /\ \A c \in Returned :
       c.ret.utlost =>
         /\ Triggers(c.sl) # {}
         /\ c.ret.dato = Least(Triggers(c.sl))
         /\ c.ret.pris = Level(MarkAt(c.ret.dato), c.sl)
         /\ SameFrac(c.ret.g, ReturnOf(c.ret.pris))
         /\ c.ret.rad = c.ret.dato
         /\ c.ret.hoyeste = MarkAt(c.ret.dato)

\* A call that exited although a later row reaches its stop level too, with
\* a Low under the price returned.
C2_Witness ==
  \E c \in Calls :
    /\ c.ret.utlost
    /\ Cardinality(Triggers(c.sl)) >= 2
    /\ df[c.ret.dato].Low * 100 < c.ret.pris

\* ---------------------------------------------------------------- C3
\* C3: with rows after the buy date and none reaching its stop level, the
\* call returns the last row's date, its Close as price and
\* (Close - buy price) / buy price; and a call returns this close-based
\* outcome only when no row reached its stop level.
C3_HeldToEnd ==
  \A c \in Returned :
    /\ (PostEntry # {} /\ Triggers(c.sl) = {}) =>
         /\ ~c.ret.utlost
         /\ c.ret.dato = Len(df)
         /\ c.ret.pris = 100 * df[Len(df)].Close
         /\ SameFrac(c.ret.g, ReturnOf(100 * df[Len(df)].Close))
    /\ (PostEntry # {} /\ ~c.ret.utlost) => Triggers(c.sl) = {}

\* A call held to the end over at least two rows, one of which raised the
\* mark.
C3_Witness ==
  \E c \in Calls :
    /\ ~c.ret.utlost
    /\ Cardinality(Evaluated) >= 2
    /\ c.ret.hoyeste > optimal_pris
    /\ c.ret.dato = Len(df)

\* ---------------------------------------------------------------- C4
\* C4: in one simulation the mark starts at the buy price, never falls from
\* row to row and is the largest of the buy price and the Highs evaluated
\* so far; the stop level is never under an earlier one of the simulation
\* and never above the mark.
C4_MonotoneMark ==
  [][ /\ (pc = "sweep" /\ pc' = "walk") => hoyeste_pris' = optimal_pris
      /\ pc = "walk" =>
           /\ hoyeste_pris' >= hoyeste_pris
           /\ hoyeste_pris' = (IF idx > Len(df) THEN hoyeste_pris ELSE MarkAt(idx))
           /\ stop_niva # None => stop_niva' >= stop_niva
           /\ stop_niva' # None => /\ stop_niva' <= 100 * hoyeste_pris'
                                   /\ stop_niva' = Level(hoyeste_pris', sl) ]_vars

\* A walk that has passed a row whose High is under the mark.
C4_Witness ==
  /\ pc = "walk"
  /\ idx - 1 \in Evaluated
  /\ df[idx - 1].High < hoyeste_pris
  /\ hoyeste_pris > optimal_pris
  /\ stop_niva # None

\* ---------------------------------------------------------------- C5
\* What simuler_handel returns for percent p on the run's frame and buy.
Sim(p) == simuler_handel(df, optimal_dato, optimal_pris, p)

\* The percents of the range no other percent of it beats.
MaximalOf(g) == { p \in DOMAIN g : \A q \in DOMAIN g : ~Greater(g[q], g[p]) }
Maximal == UNION { MaximalOf(g) : g \in {[p \in r_start..r_end |-> Sim(p).g]} }

\* C5: the loop calls the simulator once per percent of [lo, hi] in
\* ascending order; row n of the table holds percent lo + n - 1 and 100
\* times its return; after the loop there are hi - lo + 1 rows, the best
\* percent is the least percent whose return is the largest (the -100.0
\* of line 224 is gone), and the best sale date and price are those of that
\* percent's simulation.
C5_SweepTable ==
  /\ Len(results) <= r_end - r_start + 1
  /\ Len(kall) = Len(results)
  /\ \A n \in 1..Len(results) :
       /\ results[n].sl = r_start + n - 1
       /\ kall[n].sl = r_start + n - 1
  /\ (pc = "sweep" /\ results # << >>) =>
       \A row \in {results[Len(results)]} : \A s \in {Sim(row.sl)} :
         SameFrac(row.gevinst, <<100 * s.g[1], s.g[2]>>)
  /\ SweepOver =>
       /\ Len(results) = r_end - r_start + 1
       /\ best_sl = Least(Maximal)
       /\ \A s \in {Sim(best_sl)} :
            /\ SameFrac(best_gevinst, s.g)
            /\ best_salgsdato = s.dato
            /\ best_salgspris = s.pris

\* A finished sweep in which two percents share the largest return, one of
\* them by a stop and the other held to the end.
C5_Witness ==
  /\ SweepOver
  /\ Cardinality(Maximal) >= 2
  /\ best_sl < Largest(Maximal)
  /\ \E a, b \in Calls :
       /\ {a.sl, b.sl} \subseteq Maximal
       /\ a.ret.utlost /\ ~b.ret.utlost

\* ---------------------------------------------------------------- C6
\* C6: with fewer than two rows after the buy date (none, or one), every
\* simulation of the sweep returns the zero outcome without a date, every
\* table row is 0, and the run ends without an error.
C6_DegenerateIsValid ==
  (Cardinality(PostEntry) < 2 /\ pc \in {"done", "error"}) =>
    /\ \A c \in Calls : c.ret.dato = None /\ c.ret.g[1] = 0
    /\ Len(results) = r_end - r_start + 1
    /\ \A n \in 1..Len(results) : results[n].gevinst[1] = 0
    /\ pc = "done"

Scaled(k) ==
  [i \in 1..Len(df) |->
     [High |-> IF df[i].High = NaN THEN NaN ELSE k * df[i].High,
      Low |-> IF df[i].Low = NaN THEN NaN ELSE k * df[i].Low,
      Close |-> k * df[i].Close]]

SimScaled(k, p) == simuler_handel(Scaled(k), optimal_dato, k * optimal_pris, p)

MaximalScaled(k) ==
  UNION { MaximalOf(g) : g \in {[p \in r_start..r_end |-> SimScaled(k, p).g]} }

Inert(i) ==
  LET m == IF i = optimal_dato + 1 THEN optimal_pris ELSE MarkAt(i - 1)
  IN [df EXCEPT ![i] = [High |-> m, Low |-> m, Close |-> df[i].Close]]

\* C9: a row after the buy date whose High or Low is missing is stepped
\* over: the mark stays (also when the field present is above it), the walk
\* goes on to the next row and no call returns on it; each call's outcome
\* is the one on the frame with that row made inert, its Close kept for the
\* held-to-end outcome.  No error comes of such a row.
C9_SkipMissing ==
  /\ [][ (pc = "walk" /\ idx <= Len(df) /\ Missing(df[idx]))
         => ( /\ hoyeste_pris' = hoyeste_pris
              /\ stop_niva' = stop_niva
              /\ idx' = idx + 1
              /\ pc' = "walk"
              /\ kall' = kall ) ]_vars
  /\ [](\A c \in Returned : \A i \in PostEntry :
          Missing(df[i]) =>
            \A s \in {simuler_handel(Inert(i), optimal_dato, optimal_pris, c.sl)} :
               /\ s.dato = c.ret.dato
               /\ s.utlost = c.ret.utlost
               /\ s.pris = c.ret.pris
               /\ SameFrac(s.g, c.ret.g))

\* A walk that stepped over a row with Low missing and a High above the
\* mark.
C9_Witness ==
  /\ pc = "walk"
  /\ idx - 1 \in PostEntry
  /\ df[idx - 1].Low = NaN
  /\ df[idx - 1].High # NaN
  /\ df[idx - 1].High > hoyeste_pris

\* --------------------------------------------------------------- C10
\* C10: on every row the simulator evaluated, from the buy date to the
\* best trade's sale row, the chart's stop-loss value is the stop level the
\* simulator used on that row: (1 - best/100) times the mark of the rows
\* evaluated after the buy date, which neither the buy row nor a skipped
\* row has raised.
C10_ChartFollowsSimulator ==
  pc = "done" =>
    \A i \in Evaluated :
      i <= best_salgsdato => sl_line[i] = Level(MarkAt(i), best_sl)

====
